---- MODULE Spec2Model ----
(***************************************************************************)
(* The scene tree of the viewer (SceneNode.js): scene nodes wrap THREE     *)
(* objects, hold a name-keyed children map, resolve paths with lazy        *)
(* creation of groups, replace objects and dispose GPU resources.          *)
(*                                                                         *)
(* Every method of SceneNode is an operator that takes the heap `w` (the   *)
(* nodes, the objects, the release counters and the outcome of the call    *)
(* in progress) and returns the heap after the call.  A call that throws   *)
(* keeps the writes it made before the throw and sets w.fault.  The        *)
(* actions apply one whole method call to the current state.               *)
(***************************************************************************)
EXTENDS Integers, Sequences, FiniteSets, TLC

\* ------------------------------------------------------------------ bounds
MaxObj == 4         \* THREE objects ever allocated (each node wraps one)
MaxPathLen == 2     \* longest path handed to find / delete
MaxRename == 1      \* set_property calls that overwrite an object's name

\* --------------------------------------------------------------- constants
Null == 0                       \* null / undefined reference
Inherited == -1                 \* a value read through Object.prototype
ROOT == 1                       \* the node built first, by the caller
Names == {"a", "constructor"}
ProtoNames == {"constructor"}   \* properties every {} inherits
Paths == UNION {[1..k -> Names] : k \in 0..MaxPathLen}

NoMaterial == [array |-> FALSE, maps |-> <<>>]
Q0 == <<0, 0, 0, 1>>            \* the identity quaternion

\* A THREE object as the scene tree reads it: its name, its place in the
\* containment hierarchy and its resources.  material.maps[i] tells whether
\* the i-th material carries a texture map; array tells whether
\* object.material is an array.  The fields the scene tree only writes
\* (position, quaternion, scale, visible) are recorded as write events.
Object3D(name, geometry, material) ==
  [name |-> name, parent |-> Null, children |-> <<>>,
   geometry |-> geometry, material |-> material]

Group(name) == Object3D(name, FALSE, NoMaterial)
MeshSingle(name) == Object3D(name, TRUE, [array |-> FALSE, maps |-> <<TRUE>>])
MeshArray(name) == Object3D(name, TRUE, [array |-> TRUE, maps |-> <<TRUE, FALSE>>])

\* The objects a caller hands to set_object (freshly loaded, not in the scene).
Loaded == {MeshSingle("")}

VARIABLES
  nodes,      \* node id -> [object, children]; children: <<[name, node]>> in key order
  objects,    \* object id -> Object3D record
  released,   \* resource -> number of dispose() calls it has received
  renames,    \* writes of an object's name made so far by set_property
  call,       \* the last call: [op, node, arg]
  repeat,     \* the last call is a find, and the same call as the one before it
  ret,        \* what the last call returned (a node id, or Null)
  fault,      \* the last call threw
  trace       \* what the last call did, in order: nodes constructed,
              \* resources disposed, fields written, refreshes, console errors

vars == <<nodes, objects, released, renames, call, repeat, ret, fault, trace>>

\* ------------------------------------------------------------------- heap
Heap(ns, os, rel) ==
  [nodes |-> ns, objects |-> os, released |-> rel, ret |-> Null,
   fault |-> FALSE, trace |-> <<>>, renames |-> 0]

Now == Heap(nodes, objects, released)

\* JavaScript argument values, tagged with their type.
Arr(s) == <<"array", s>>
Str(s) == <<"string", s>>
Bool(b) == <<"boolean", b>>
Undef == <<"undefined">>

\* One step of a call: ev is "new" (a node constructed: idx is the node),
\* "dispose" (kind and idx name the resource of obj), "write" (kind is the
\* field of obj), "refresh" or "error".
Event(ev, o, kind, i, value) ==
  [ev |-> ev, obj |-> o, kind |-> kind, idx |-> i, value |-> value]

Emit(w, e) == [w EXCEPT !.trace = Append(@, e)]

Throw(w) == [w EXCEPT !.fault = TRUE, !.ret = Null]
Return(w, v) == [w EXCEPT !.ret = v]

SeqRemove(s, x) == SelectSeq(s, LAMBDA y : y # x)
Range(s) == {s[i] : i \in 1..Len(s)}

\* ------------------------------------------------------- THREE.Object3D
\* parent.remove(o): splice o out of parent.children and clear o.parent.
Object3D_remove(os, p, o) ==
  IF o \in Range(os[p].children)
  THEN [os EXCEPT ![p].children = SeqRemove(@, o), ![o].parent = Null]
  ELSE os

\* parent.add(o): take o out of its present parent, then push it.
Object3D_add(os, p, o) ==
  LET o1 == IF os[o].parent # Null
            THEN Object3D_remove(os, os[o].parent, o) ELSE os
  IN [o1 EXCEPT ![o].parent = p, ![p].children = Append(@, o)]

\* --------------------------------------------------------------- dispose
Res(o, kind, i) == [obj |-> o, kind |-> kind, idx |-> i]

RelCount(rel, r) == IF r \in DOMAIN rel THEN rel[r] ELSE 0

\* resource.dispose()
Release(w, r) ==
  Emit([w EXCEPT !.released = (r :> RelCount(@, r) + 1) @@ @],
       Event("dispose", r.obj, r.kind, r.idx, Undef))

\* for (const material of object.material) { map.dispose(); material.dispose() }
RECURSIVE disposeArray(_, _, _)
disposeArray(w, object, i) ==
  LET maps == w.objects[object].material.maps
  IN IF i > Len(maps) THEN w
     ELSE LET w1 == IF maps[i] THEN Release(w, Res(object, "map", i)) ELSE w
              w2 == Release(w1, Res(object, "material", i))
          IN disposeArray(w2, object, i + 1)

disposeSingle(w, object) ==
  LET maps == w.objects[object].material.maps
      w1 == IF maps[1] THEN Release(w, Res(object, "map", 1)) ELSE w
  IN Release(w1, Res(object, "material", 1))

\* dispose without the Array.isArray branch: object.material taken as one
\* material.
dispose_single_only(w, object) ==
  IF object = Null THEN w
  ELSE LET o == w.objects[object]
           w1 == IF o.geometry THEN Release(w, Res(object, "geometry", 0)) ELSE w
       IN IF o.material = NoMaterial THEN w1
          ELSE disposeSingle(w1, object)

dispose(w, object) ==
  IF object = Null THEN w
  ELSE LET o == w.objects[object]
           w1 == IF o.geometry THEN Release(w, Res(object, "geometry", 0)) ELSE w
       IN IF o.material = NoMaterial THEN w1
          ELSE IF o.material.array THEN disposeArray(w1, object, 1)
          ELSE disposeSingle(w1, object)

\* ------------------------------------------------------------- SceneNode
\* this.children[name]: an own key, else what {} inherits, else undefined.
Lookup(w, n, name) ==
  LET ch == w.nodes[n].children
      hit == {i \in 1..Len(ch) : ch[i].name = name}
  IN IF hit # {} THEN ch[CHOOSE i \in hit : TRUE].node
     ELSE IF name \in ProtoNames THEN Inherited
     ELSE Null

\* this.children[name] = node: an existing key keeps its place in key order.
SetChild(ch, name, node) ==
  IF \E i \in 1..Len(ch) : ch[i].name = name
  THEN [i \in 1..Len(ch) |->
          IF ch[i].name = name THEN [name |-> name, node |-> node] ELSE ch[i]]
  ELSE Append(ch, [name |-> name, node |-> node])

\* delete this.children[name]
RemoveKey(ch, name) == SelectSeq(ch, LAMBDA e : e.name # name)

\* new SceneNode(object): wraps object, then add_child for each object child.
RECURSIVE SceneNode(_, _), addChildren(_, _, _)
add_child(w, n, object) ==
  LET w1 == SceneNode(w, object)
      node == w1.ret
  IN Return([w1 EXCEPT !.nodes[n].children =
                          SetChild(@, w1.objects[object].name, node)],
            node)

addChildren(w, n, cs) ==
  IF cs = <<>> THEN w
  ELSE addChildren(add_child(w, n, Head(cs)), n, Tail(cs))

SceneNode(w, object) ==
  LET n == Len(w.nodes) + 1
      w1 == Emit([w EXCEPT !.nodes =
                             Append(@, [object |-> object, children |-> <<>>])],
                 Event("new", object, "node", n, Undef))
      w2 == addChildren(w1, n, w1.objects[object].children)
  IN Return(w2, n)

create_child(w, n, name) ==
  LET obj == Len(w.objects) + 1
      w1 == [w EXCEPT !.objects = Append(@, Group(name))]
      w2 == [w1 EXCEPT !.objects = Object3D_add(@, w1.nodes[n].object, obj)]
  IN add_child(w2, n, obj)

RECURSIVE find(_, _, _)
find(w, n, path) ==
  IF Len(path) = 0 THEN Return(w, n)
  ELSE LET name == Head(path)
           c == Lookup(w, n, name)
           w1 == IF c = Null THEN create_child(w, n, name) ELSE Return(w, c)
       IN IF w1.ret = Inherited
          THEN Throw(w1)                  \* child.find is not a function
          ELSE find(w1, w1.ret, Tail(path))

RECURSIVE dispose_recursive(_, _), disposeChildren(_, _)
disposeChildren(w, ch) ==
  IF ch = <<>> THEN w
  ELSE disposeChildren(dispose_recursive(w, Head(ch).node), Tail(ch))

\* dispose_recursive with the two statements swapped: the node's object
\* before the children.
dispose_recursive_self_first(w, n) ==
  disposeChildren(dispose(w, w.nodes[n].object), w.nodes[n].children)

dispose_recursive(w, n) ==
  dispose(disposeChildren(w, w.nodes[n].children), w.nodes[n].object)

\* set_object with line 90 taking the captured parent for the new object:
\* the node wraps the object its parent node wraps.
set_object_wraps_parent(w, n, object) ==
  LET old == w.nodes[n].object
      parent == w.objects[old].parent
      w1 == dispose_recursive(w, n)
  IN IF w1.objects[old].parent = Null
     THEN Throw(w1)
     ELSE LET w2 == [w1 EXCEPT !.objects =
                                 Object3D_remove(@, w1.objects[old].parent, old)]
              w3 == [w2 EXCEPT !.nodes[n].object = parent]
          IN Return([w3 EXCEPT !.objects = Object3D_add(@, parent, object)], Null)

\* set_object without line 89: the old object stays attached to its parent.
set_object_no_remove(w, n, object) ==
  LET old == w.nodes[n].object
      parent == w.objects[old].parent
      w1 == dispose_recursive(w, n)
  IN IF w1.objects[old].parent = Null
     THEN Throw(w1)
     ELSE LET w3 == [w1 EXCEPT !.nodes[n].object = object]
          IN Return([w3 EXCEPT !.objects = Object3D_add(@, parent, object)], Null)

set_object(w, n, object) ==
  LET old == w.nodes[n].object
      parent == w.objects[old].parent
      w1 == dispose_recursive(w, n)
  IN IF w1.objects[old].parent = Null
     THEN Throw(w1)                       \* null.remove
     ELSE LET w2 == [w1 EXCEPT !.objects =
                                 Object3D_remove(@, w1.objects[old].parent, old)]
              w3 == [w2 EXCEPT !.nodes[n].object = object]
          IN Return([w3 EXCEPT !.objects = Object3D_add(@, parent, object)], Null)

\* delete with a missing child reported like an empty path.
deleteChild_reports_miss(w, n, path) ==
  LET w1 == find(w, n, SubSeq(path, 1, Len(path) - 1))
      parent == w1.ret
      name == path[Len(path)]
  IN IF w1.fault THEN w1
     ELSE LET child == Lookup(w1, parent, name)
          IN IF child = Null
             THEN Return(Emit(w1, Event("error", Null, "console", 0, Undef)), Null)
             ELSE IF child = Inherited
             THEN Throw(w1)
             ELSE LET w2 == dispose_recursive(w1, child)
                      w3 == [w2 EXCEPT !.objects =
                               Object3D_remove(@, w2.nodes[parent].object,
                                               w2.nodes[child].object)]
                  IN Return([w3 EXCEPT !.nodes[parent].children =
                                         RemoveKey(@, name)], Null)

\* delete without line 110: the child's object stays attached.
deleteChild_no_detach(w, n, path) ==
  LET w1 == find(w, n, SubSeq(path, 1, Len(path) - 1))
      parent == w1.ret
      name == path[Len(path)]
  IN IF w1.fault THEN w1
     ELSE LET child == Lookup(w1, parent, name)
          IN IF child = Null THEN Return(w1, Null)
             ELSE IF child = Inherited
             THEN Throw(w1)
             ELSE LET w2 == dispose_recursive(w1, child)
                  IN Return([w2 EXCEPT !.nodes[parent].children =
                                         RemoveKey(@, name)], Null)

\* The else branch of delete: resolve the parent, dispose and unlink the child.
deleteChild(w, n, path) ==
  LET w1 == find(w, n, SubSeq(path, 1, Len(path) - 1))
      parent == w1.ret
      name == path[Len(path)]
  IN IF w1.fault THEN w1
     ELSE LET child == Lookup(w1, parent, name)
          IN IF child = Null THEN Return(w1, Null)
             ELSE IF child = Inherited
             THEN Throw(w1)               \* child.dispose_recursive is not a function
             ELSE LET w2 == dispose_recursive(w1, child)
                      w3 == [w2 EXCEPT !.objects =
                               Object3D_remove(@, w2.nodes[parent].object,
                                               w2.nodes[child].object)]
                  IN Return([w3 EXCEPT !.nodes[parent].children =
                                         RemoveKey(@, name)], Null)

\* delete that returns on an empty path without console.error.
delete_empty_silent(w, n, path) ==
  IF Len(path) = 0 THEN Return(w, Null) ELSE deleteChild(w, n, path)

delete(w, n, path) ==
  IF Len(path) = 0
  THEN Return(Emit(w, Event("error", Null, "console", 0, Undef)), Null)
  ELSE deleteChild(w, n, path)

\* The constructor assigns object and children only: vis_controller is
\* read as undefined on every node.
vis_controller(w, n) == Null

\* object.<field> = v.  The name is a field the scene tree reads back.
WriteField(w, o, field, v) ==
  LET w1 == Emit(w, Event("write", o, field, 0, v))
  IN IF field = "name"
     THEN [w1 EXCEPT !.objects[o].name = v[2], !.renames = @ + 1]
     ELSE w1

set_property(w, n, property, value) ==
  LET o == w.nodes[n].object
      transform == property \in {"position", "quaternion", "scale"}
      v == value[2]
      w1 == IF property = "position"
              THEN WriteField(w, o, "position", Arr(<<v[1], v[2], v[3]>>))
            ELSE IF property = "quaternion"
              THEN WriteField(w, o, "quaternion", Arr(<<v[1], v[2], v[3], v[4]>>))
            ELSE IF property = "scale"
              THEN WriteField(w, o, "scale", Arr(<<v[1], v[2], v[3]>>))
            ELSE WriteField(w, o, property, value)
  IN IF transform /\ value = Undef
     THEN Throw(w)                        \* value[0] of undefined
     ELSE IF vis_controller(w1, n) = Null
     THEN Throw(w1)                       \* undefined.updateDisplay
     ELSE Return(Emit(w1, Event("refresh", o, "display", 0, Undef)), Null)

\* Matrix4.decompose of a column-major matrix whose linear part is a
\* positive diagonal: the translation column, no rotation, the diagonal.
decompose(m) ==
  [position |-> <<m[13], m[14], m[15]>>,
   quaternion |-> Q0,
   scale |-> <<m[1], m[6], m[11]>>]

set_transform(w, n, matrix) ==
  IF matrix = Undef
  THEN Throw(w)                           \* fromArray reads undefined[0]
  ELSE LET o == w.nodes[n].object
           d == decompose(matrix[2])
           w1 == WriteField(w, o, "position", Arr(d.position))
           w2 == WriteField(w1, o, "quaternion", Arr(d.quaternion))
       IN Return(WriteField(w2, o, "scale", Arr(d.scale)), Null)

\* ------------------------------------------------------------ the scene
\* The node and its descendants through the children maps.
RECURSIVE Subtree(_, _)
Subtree(ns, n) ==
  {n} \cup UNION {Subtree(ns, ns[n].children[i].node) :
                    i \in 1..Len(ns[n].children)}

Reachable == Subtree(nodes, ROOT)

\* The hierarchies the viewer may hand to the root's constructor.
EmptyScene == <<Group("scene")>>
ChainScene ==
  Object3D_add(
    Object3D_add(<<Group("scene"), MeshSingle("a"), MeshArray("a")>>, 1, 2),
    2, 3)
InitScenes == {EmptyScene, ChainScene}

\* A column-major matrix: scale by 2, then move by (1, 2, 3).
Moved16 == <<2, 0, 0, 0,  0, 2, 0, 0,  0, 0, 2, 0,  1, 2, 3, 1>>

\* ------------------------------------------------------------- actions
\* The state after a call that left the heap w.
Commit(w, op, n, arg) ==
  /\ Len(w.objects) <= MaxObj
  /\ renames + w.renames <= MaxRename
  /\ nodes' = w.nodes
  /\ objects' = w.objects
  /\ released' = w.released
  /\ renames' = renames + w.renames
  /\ call' = [op |-> op, node |-> n, arg |-> arg]
  /\ repeat' = (op = "find" /\ call.op = op /\ call.node = n /\ call.arg = arg)
  /\ ret' = w.ret
  /\ fault' = w.fault
  /\ trace' = w.trace

Init ==
  \E scene \in InitScenes :
    LET w == SceneNode(Heap(<<>>, scene, <<>>), 1)
    IN /\ nodes = w.nodes
       /\ objects = w.objects
       /\ released = w.released
       /\ renames = 0
       /\ call = [op |-> "new", node |-> ROOT, arg |-> <<>>]
       /\ repeat = FALSE
       /\ ret = w.ret
       /\ fault = FALSE
       /\ trace = w.trace

\* Paths address nodes from the root: find and delete are called on it.
Find(path) == Commit(find(Now, ROOT, path), "find", ROOT, path)

CreateChild(n, name) ==
  Commit(create_child(Now, n, name), "create_child", n, name)

SetProperty(n, property, value) ==
  Commit(set_property(Now, n, property, value), "set_property", n,
         <<property, value>>)

SetTransform(n, matrix) ==
  Commit(set_transform(Now, n, matrix), "set_transform", n, matrix)

\* The caller loads a new object and hands it to set_object.
SetObject(n, loaded) ==
  LET w == [Now EXCEPT !.objects = Append(@, loaded)]
  IN Commit(set_object(w, n, Len(w.objects)), "set_object", n, Len(w.objects))

Delete(path) == Commit(delete(Now, ROOT, path), "delete", ROOT, path)

Next ==
  \/ \E path \in Paths : Find(path)
  \/ \E path \in Paths : Delete(path)
  \/ \E n \in Reachable :
    \/ \E name \in Names : CreateChild(n, name)
    \/ \E v \in {Arr(<<1, 2, 3>>), Undef} : SetProperty(n, "position", v)
    \/ SetProperty(n, "quaternion", Arr(<<0, 0, 1, 0>>))
    \/ SetProperty(n, "scale", Arr(<<2, 2, 2>>))
    \/ SetProperty(n, "visible", Bool(FALSE))
    \/ \E m \in {Arr(Moved16), Undef} : SetTransform(n, m)
    \/ \E loaded \in Loaded : SetObject(n, loaded)

Spec == Init /\ [][Next]_vars

\* The calls of Next, and set_property calls that overwrite the name of the
\* wrapped object.
Rename == \E n \in Reachable : SetProperty(n, "name", Str("b"))

SpecNames == Init /\ [][Next \/ Rename]_vars

\* ------------------------------------------------- reading a state
\* The child stored under an own key of the children map, else Null.
OwnChild(ns, n, name) ==
  LET ch == ns[n].children
      hit == {i \in 1..Len(ch) : ch[i].name = name}
  IN IF hit = {} THEN Null ELSE ch[CHOOSE i \in hit : TRUE].node

\* The node a path addresses from n through own keys only, else Null.
RECURSIVE Resolve(_, _, _)
Resolve(ns, n, path) ==
  IF path = <<>> THEN n
  ELSE LET c == OwnChild(ns, n, Head(path))
       IN IF c = Null THEN Null ELSE Resolve(ns, c, Tail(path))

\* Every path that may address a node: the tree is no deeper than MaxObj.
AllPaths == UNION {[1..k -> Names] : k \in 0..MaxObj}
PathsTo(ns, n) == {p \in AllPaths : Resolve(ns, ROOT, p) = n}

\* The resources dispose(object) looks for on an object.
ResourcesOf(os, o) ==
  (IF os[o].geometry THEN {Res(o, "geometry", 0)} ELSE {})
  \cup {Res(o, "material", i) : i \in 1..Len(os[o].material.maps)}
  \cup {Res(o, "map", i) : i \in {j \in 1..Len(os[o].material.maps) :
                                    os[o].material.maps[j]}}

Events(tr, ev) == SelectSeq(tr, LAMBDA e : e.ev = ev)
Created(tr) == Len(Events(tr, "new"))
Logged(tr) == Len(Events(tr, "error"))
Refreshed(tr) == Len(Events(tr, "refresh"))
\* The resources a call disposed, in order.
Disposed(tr) ==
  [i \in 1..Len(Events(tr, "dispose")) |->
     LET e == Events(tr, "dispose")[i] IN Res(e.obj, e.kind, e.idx)]
Times(seq, x) == Cardinality({i \in 1..Len(seq) : seq[i] = x})

Attached(os, p, o) == os[o].parent = p /\ o \in Range(os[p].children)

\* The node dispose_recursive was called on by the step to the next state:
\* the node of set_object, the child delete found, else Null.
DisposeRoot ==
  IF call'.op = "set_object" THEN call'.node
  ELSE IF call'.op = "delete" /\ call'.arg # <<>> /\ ~fault'
  THEN LET parent == Resolve(nodes, call'.node,
                             SubSeq(call'.arg, 1, Len(call'.arg) - 1))
       IN IF parent = Null THEN Null
          ELSE OwnChild(nodes, parent, call'.arg[Len(call'.arg)])
  ELSE Null

\* ---------------------------------------------------------------- claims

\* C1: over any sequence of calls, every resource of every object is
\* released (dispose() called on it) at most once.
C1_ReleasedAtMostOnce == \A r \in DOMAIN released : released[r] <= 1

\* C2: no node reachable from the root through the children maps wraps an
\* object one of whose resources has been released.
C2_NoReachableDisposed ==
  \A n \in Reachable : \A r \in DOMAIN released : r.obj # nodes[n].object

\* C3: find(p) returns a node and creates at most len(p) nodes; called again
\* right after, it returns the same node and creates none.
C3_FindTwiceSameNode ==
  [][call'.op = "find" =>
       /\ ~fault'
       /\ ret' \in 1..Len(nodes')
       /\ Created(trace') <= Len(call'.arg)
       /\ repeat' => (ret' = ret /\ Created(trace') = 0)]_vars

\* The last segment of the path of the delete call that leads to the next
\* state is an own key of the node its other segments address.
DeleteHasTarget ==
  LET path == call'.arg
      parent == Resolve(nodes, call'.node, SubSeq(path, 1, Len(path) - 1))
  IN parent # Null /\ OwnChild(nodes, parent, path[Len(path)]) # Null

DeleteMiss ==
  call'.op = "delete" /\ call'.arg # <<>> /\ ~DeleteHasTarget

\* C4 as stated: delete(p) of a non-empty path whose last segment is no key
\* of the parent leaves the nodes, the children maps and the object
\* hierarchy as they were, releases nothing and logs no error.
C4_DeleteMissChangesNothing ==
  [][DeleteMiss =>
       /\ nodes' = nodes
       /\ objects' = objects
       /\ released' = released
       /\ Logged(trace') = 0]_vars

\* C4 amended: such a delete releases nothing, logs no error and changes the
\* tree exactly as find on the preceding segments does (the groups created
\* for the segments that were missing); when the preceding segments all
\* resolve, the tree is unchanged.
C4_DeleteMissOnlyResolves ==
  [][DeleteMiss =>
       LET path == call'.arg
           prefix == SubSeq(path, 1, Len(path) - 1)
           w == find(Now, call'.node, prefix)
       IN /\ released' = released
          /\ Logged(trace') = 0
          /\ Disposed(trace') = <<>>
          /\ nodes' = w.nodes
          /\ objects' = w.objects
          /\ Created(trace') <= Len(prefix)
          /\ Resolve(nodes, call'.node, prefix) # Null =>
               (nodes' = nodes /\ objects' = objects)]_vars

C4_Witness ==
  /\ call.op = "delete"
  /\ Len(call.arg) = 2
  /\ Created(trace) = 1
  /\ ~fault
  /\ Resolve(nodes, ROOT, call.arg) = Null

\* C5: after set_object(newObj) on a non-root node, every path that
\* addressed the node still resolves to it without creating a node, the node
\* wraps newObj, newObj is attached to the parent object the old object was
\* attached to, and the old object is attached to it no longer.
C5_SetObjectKeepsAddress ==
  [][(call'.op = "set_object" /\ call'.node # ROOT) =>
       LET n == call'.node
           old == nodes[n].object
           new == call'.arg
           parent == objects[old].parent
           after == Heap(nodes', objects', released')
       IN /\ ~fault'
          /\ PathsTo(nodes, n) # {}
          /\ \A p \in PathsTo(nodes, n) :
               LET w == find(after, ROOT, p)
               IN w.ret = n /\ ~w.fault /\ Created(w.trace) = 0
          /\ nodes'[n].object = new
          /\ parent # Null
          /\ Attached(objects, parent, old)
          /\ Attached(objects', parent, new)
          /\ ~Attached(objects', parent, old)
          /\ objects'[old].parent = Null]_vars

C5_Witness ==
  /\ call.op = "set_object"
  /\ call.node # ROOT
  /\ ~fault
  /\ nodes[call.node].children # <<>>
  /\ nodes[call.node].object = call.arg

\* C6: no set_property, set_transform, set_object or delete call throws.
C6_NoFaultPropagates ==
  call.op \in {"set_property", "set_transform", "set_object", "delete"}
    => ~fault

\* C7: find never fails and returns a scene node; for the empty path, the
\* node it was called on.
C7_FindTotal ==
  call.op = "find" =>
    /\ ~fault
    /\ ret \in 1..Len(nodes)
    /\ call.arg = <<>> => ret = call.node

\* C8: delete([]) logs exactly one error, returns normally and changes
\* nothing: no node created or removed, no object detached, no resource
\* released.
C8_DeleteEmptyPath ==
  [][(call'.op = "delete" /\ call'.arg = <<>>) =>
       /\ trace' = <<Event("error", Null, "console", 0, Undef)>>
       /\ ~fault'
       /\ nodes' = nodes
       /\ objects' = objects
       /\ released' = released]_vars

C8_Witness ==
  /\ call.op = "delete"
  /\ call.arg = <<>>
  /\ Logged(trace) = 1
  /\ Len(nodes) > 1

\* C9: one dispose_recursive call visits every object of the node's subtree
\* and releases each of its resources, and nothing else, exactly once.
C9_DisposalComplete ==
  [][DisposeRoot # Null =>
       LET sub == Subtree(nodes, DisposeRoot)
           due == UNION {ResourcesOf(objects, nodes[m].object) : m \in sub}
           log == Disposed(trace')
       IN /\ Range(log) = due
          /\ \A r \in due :
               /\ Times(log, r) = 1
               /\ RelCount(released', r) = RelCount(released, r) + 1
          /\ \A r \in DOMAIN released' \ due :
               released'[r] = RelCount(released, r)]_vars

C9_Witness ==
  /\ call.op = "delete"
  /\ ~fault
  /\ Cardinality({e.obj : e \in Range(Events(trace, "dispose"))}) = 2
  /\ Len(Events(trace, "dispose")) = 7

\* C10: dispose_recursive releases no resource of a node before every
\* resource of every descendant of the node, and a material's texture map
\* before the material.
C10_DisposalOrder ==
  [][DisposeRoot # Null =>
       LET sub == Subtree(nodes, DisposeRoot)
           log == Disposed(trace')
           owner(r) == CHOOSE m \in sub : nodes[m].object = r.obj
       IN /\ \A i \in 1..Len(log) : \E m \in sub : nodes[m].object = log[i].obj
          /\ \A i, j \in 1..Len(log) :
               (i < j /\ owner(log[i]) # owner(log[j])) =>
                 owner(log[j]) \notin Subtree(nodes, owner(log[i]))
          /\ \A j \in 1..Len(log) :
               (log[j].kind = "material"
                  /\ objects[log[j].obj].material.maps[log[j].idx]) =>
                 \E i \in 1..(j - 1) :
                   log[i] = Res(log[j].obj, "map", log[j].idx)]_vars

C10_Witness ==
  /\ call.op = "set_object"
  /\ ~fault
  /\ Cardinality({e.obj : e \in Range(Events(trace, "dispose"))}) = 2
  /\ \E e \in Range(Events(trace, "dispose")) : e.kind = "map" /\ e.idx = 1

\* C11: in every state, for every node reachable from the root, each key of
\* its children map equals the name of the object wrapped by the child
\* stored under that key (I1).
C11_KeysAreNames ==
  \A n \in Reachable : \A i \in 1..Len(nodes[n].children) :
    LET c == nodes[n].children[i]
    IN objects[nodes[c.node].object].name = c.name

\* C12: in every state, the object wrapped by a node reachable from the root
\* is attached as a child of the object its parent node wraps (I2), also
\* for the children of a node whose object set_object has replaced.
C12_ChildObjectsAttached ==
  \A n \in Reachable : \A i \in 1..Len(nodes[n].children) :
    Attached(objects, nodes[n].object,
             nodes[nodes[n].children[i].node].object)

\* C13: with every object handed to set_object wrapped by no node at the
\* time of the call, no object is wrapped by two different nodes reachable
\* from the root (I3).
C13_SingleOwnership ==
  \A n, m \in Reachable : nodes[n].object = nodes[m].object => n = m

C13_Witness ==
  /\ call.op = "set_object"
  /\ ~fault
  /\ Cardinality(Reachable) >= 3
  /\ nodes[call.node].object = call.arg
  /\ \A n \in 1..Len(nodes) : n # call.node => nodes[n].object # call.arg

\* C14: a set_property call with a value of the property's shape writes the
\* value onto the wrapped object (the components for position, quaternion
\* and scale, the field otherwise), then invokes the display refresh exactly
\* once, after the write, and does nothing else.
C14_WriteThenRefresh ==
  (call.op = "set_property" /\ call.arg[2] # Undef) =>
    LET o == nodes[call.node].object
    IN /\ ~fault
       /\ trace = <<Event("write", o, call.arg[1], 0, call.arg[2]),
                    Event("refresh", o, "display", 0, Undef)>>

\* C15: a set_transform or set_property call that returns has invoked the
\* display refresh after its writes: the last thing the call did is a
\* refresh.
C15_RefreshAfterMutation ==
  (call.op \in {"set_transform", "set_property"} /\ ~fault) =>
    /\ Refreshed(trace) >= 1
    /\ trace[Len(trace)].ev = "refresh"

\* ------------------------------------------- construction over a hierarchy
\* The object hierarchies of k objects a caller may have built before it
\* constructs the root node: object 1 is the root object, every other object
\* hangs below an earlier one, and sibling names are whatever the caller
\* gave them.
Hierarchy(k, par, nm) ==
  [i \in 1..k |->
     [Group(IF i = 1 THEN "scene" ELSE nm[i]) EXCEPT
        !.parent = IF i = 1 THEN Null ELSE par[i],
        !.children = SelectSeq([j \in 1..k |-> j],
                               LAMBDA j : j > 1 /\ par[j] = i)]]

Hierarchies ==
  UNION {{Hierarchy(k, par, nm) :
            par \in {f \in [2..k -> 1..k] : \A i \in 2..k : f[i] < i},
            nm \in [2..k -> Names]} :
         k \in 1..(MaxObj - 1)}

\* new SceneNode(object) on the root object of any of these hierarchies.
InitHierarchy ==
  \E scene \in Hierarchies :
    LET w == SceneNode(Heap(<<>>, scene, <<>>), 1)
    IN /\ nodes = w.nodes
       /\ objects = w.objects
       /\ released = w.released
       /\ renames = 0
       /\ call = [op |-> "new", node |-> ROOT, arg |-> <<>>]
       /\ repeat = FALSE
       /\ ret = w.ret
       /\ fault = FALSE
       /\ trace = w.trace

SpecHierarchy == InitHierarchy /\ [][Next]_vars

\* m is stored in the children map of n.
ChildNode(ns, n, m) == \E i \in 1..Len(ns[n].children) : ns[n].children[i].node = m

\* C16: right after the constructor ran on the root of a hierarchy, every
\* object of the hierarchy is wrapped by exactly one node reachable from the
\* root node, a reachable node is a child of another exactly when its object
\* is a child of the other's object, every key is the name of the child's
\* object (I1) and every child's object is attached to its parent's (I2).
C16_ConstructorMirrors ==
  call.op = "new" =>
    /\ \A o \in 1..Len(objects) :
         Cardinality({n \in Reachable : nodes[n].object = o}) = 1
    /\ \A n, m \in Reachable :
         ChildNode(nodes, n, m)
           <=> Attached(objects, nodes[n].object, nodes[m].object)
    /\ \A n \in Reachable : \A i \in 1..Len(nodes[n].children) :
         LET c == nodes[n].children[i]
         IN /\ objects[nodes[c.node].object].name = c.name
            /\ Attached(objects, nodes[n].object, nodes[c.node].object)

\* C17: delete(p) of a non-empty path whose target node exists returns,
\* releases once more each resource of each object wrapped in the target's
\* subtree and no other resource, leaves the target's object detached from
\* the object of its parent node, removes the target's key from the parent's
\* children map, and changes nothing else: no node is created, every other
\* children map, every wrapped object and every other object stay as they
\* were.
C17_DeleteFrame ==
  [][(call'.op = "delete" /\ call'.arg # <<>> /\ DeleteHasTarget) =>
       LET path == call'.arg
           name == path[Len(path)]
           parent == Resolve(nodes, call'.node, SubSeq(path, 1, Len(path) - 1))
           target == OwnChild(nodes, parent, name)
           pobj == nodes[parent].object
           tobj == nodes[target].object
           due == UNION {ResourcesOf(objects, nodes[m].object) :
                           m \in Subtree(nodes, target)}
       IN /\ ~fault'
          /\ Created(trace') = 0
          /\ \A r \in due : RelCount(released', r) = RelCount(released, r) + 1
          /\ \A r \in DOMAIN released' \ due :
               r \in DOMAIN released /\ released'[r] = released[r]
          /\ ~Attached(objects', pobj, tobj)
          /\ tobj \notin Range(objects'[pobj].children)
          /\ objects'[tobj].parent # pobj
          /\ OwnChild(nodes', parent, name) = Null
          /\ Len(nodes') = Len(nodes)
          /\ \A m \in 1..Len(nodes) :
               /\ nodes'[m].object = nodes[m].object
               /\ m # parent => nodes'[m].children = nodes[m].children
          /\ \A i \in 1..Len(nodes[parent].children) :
               nodes[parent].children[i].name # name =>
                 nodes[parent].children[i] \in Range(nodes'[parent].children)
          /\ Len(nodes'[parent].children) = Len(nodes[parent].children) - 1
          /\ Len(objects') = Len(objects)
          /\ \A o \in 1..Len(objects) :
               /\ o \notin {pobj, tobj} => objects'[o] = objects[o]
               /\ objects'[o].name = objects[o].name
               /\ objects'[o].geometry = objects[o].geometry
               /\ objects'[o].material = objects[o].material
               /\ o # tobj => objects'[o].parent = objects[o].parent
               /\ o # pobj => objects'[o].children = objects[o].children
          /\ Range(objects'[pobj].children)
               = Range(objects[pobj].children) \ {tobj}]_vars

C17_Witness ==
  /\ call.op = "delete"
  /\ ~fault
  /\ Created(trace) = 0
  /\ Cardinality({e.obj : e \in Range(Events(trace, "dispose"))}) = 2
  /\ Cardinality(Reachable) >= 2
  /\ Resolve(nodes, ROOT, call.arg) = Null

\* The object and everything attached below it in the render scene.
RECURSIVE ObjectSubtree(_, _)
ObjectSubtree(os, o) ==
  {o} \cup UNION {ObjectSubtree(os, os[o].children[i]) :
                    i \in 1..Len(os[o].children)}

\* C18: in every state, every object attached in the render scene below the
\* root's object is wrapped by a node reachable from the root.
C18_NoLeak ==
  \A o \in ObjectSubtree(objects, nodes[ROOT].object) :
    \E n \in Reachable : nodes[n].object = o

\* The call that leads to the next state is a delete of a non-empty path that
\* removes an existing node.
DeleteRemoves == call'.op = "delete" /\ call'.arg # <<>> /\ DeleteHasTarget

\* C19: right after a delete(p) that removed an existing node, find(p)
\* returns a node constructed by that call, not the deleted one, which wraps
\* a new empty group with no children and no released resource; a find that
\* returns, returns a node reachable from the root, and a node that is not
\* reachable (a deleted node, its descendants) never becomes reachable
\* again.
C19_DeletedStaysGone ==
  [][/\ DeleteRemoves =>
          LET path == call'.arg
              name == path[Len(path)]
              parent == Resolve(nodes, call'.node,
                                SubSeq(path, 1, Len(path) - 1))
              target == OwnChild(nodes, parent, name)
              w == find(Heap(nodes', objects', released'), call'.node, path)
              obj == w.nodes[w.ret].object
          IN /\ ~fault'
             /\ ~w.fault
             /\ Created(w.trace) = 1
             /\ w.ret = Len(nodes') + 1
             /\ w.ret \notin Subtree(nodes, target)
             /\ obj = Len(objects') + 1
             /\ w.objects[obj] =
                  [Group(name) EXCEPT !.parent = nodes[parent].object]
             /\ w.nodes[w.ret].children = <<>>
             /\ \A r \in DOMAIN w.released : r.obj # obj
     /\ (call'.op = "find" /\ ~fault') => ret' \in Reachable'
     /\ \A n \in 1..Len(nodes) : n \notin Reachable => n \notin Reachable'
    ]_vars
====
